---------------------------- MODULE Spec2Model ----------------------------
(***************************************************************************)
(* The ArtifactTool updater and invoker of the vsts-cli package commands   *)
(* (artifacttool.py, upack.py).                                            *)
(*                                                                         *)
(* Each process is one CLI process running one `vsts package publish` or   *)
(* `vsts package download` command.  The command resolves the tool binary  *)
(* (ArtifactToolUpdater), builds the argument list and the environment     *)
(* (ArtifactToolInvoker), runs the tool and feeds every stderr line of it  *)
(* to _process_stderr.  The on-disk cache under <tmp>/ArtifactTool is      *)
(* shared by all processes.                                                *)
(***************************************************************************)
EXTENDS Integers, Sequences, FiniteSets, TLC

\* ------------------------------------------------------------------ bounds
NumProcs == 2
MaxLines == 2
MaxCount == 4
NumExtra == 1

Procs == 1..NumProcs

\* Python's None, and a key that is absent from a JSON object / the environment.
None == "<None>"

\* ------------------------------------------------------- class constants
ARTIFACTTOOL_OVERRIDE_PATH_ENVKEY == "VSTS_ARTIFACTTOOL_OVERRIDE_PATH"
ARTIFACTTOOL_OVERRIDE_URL_ENVKEY == "VSTS_ARTIFACTTOOL_OVERRIDE_URL"
DEFAULT_ARTIFACTTOOL_BINARY_URL == "https://zachtest1.blob.core.windows.net/test/artifacttool-win10-x64-Release.zip"
PATVAR == "VSTS_ARTIFACTTOOL_PATVAR"

\* ------------------------------------------------- the outside world
\* Values the two override variables take in the environments of the model.
OverridePath == "/opt/ArtifactTool.exe"
OverrideUrl == "https://mirror/artifacttool.zip"

\* os.environ of a CLI process is a dictionary: a function from the names that are
\* set to their values.  HOME is always set, the three others are set or not.
EnvValue(k) ==
    CASE k = ARTIFACTTOOL_OVERRIDE_PATH_ENVKEY -> OverridePath
      [] k = ARTIFACTTOOL_OVERRIDE_URL_ENVKEY -> OverrideUrl
      [] k = PATVAR -> "stale-token"
      [] OTHER -> "/home/user"

OptionalKeys == {ARTIFACTTOOL_OVERRIDE_PATH_ENVKEY, ARTIFACTTOOL_OVERRIDE_URL_ENVKEY, PATVAR}

Environs == { [k \in ({"HOME"} \cup ks) |-> EnvValue(k)] : ks \in SUBSET OptionalKeys }

\* The ETag header each URL answers a HEAD request with, as a string of characters.
ServerETag(url) ==
    IF url = DEFAULT_ARTIFACTTOOL_BINARY_URL
    THEN <<"\"", "0", "x", "8", "D", "5", "\"">>
    ELSE <<"\"", "0", "x", "8", "E", "0", "x", "\"">>

\* The entries of the zip archive: 0 is artifacttool-win10-x64-Release/ArtifactTool.exe,
\* 1..NumExtra are the other files of the release.
BinaryEntry == 0
Entries == 0..NumExtra

\* The order in which the archive a URL serves lists its entries.
ArchiveOf(url) ==
    IF url = DEFAULT_ARTIFACTTOOL_BINARY_URL
    THEN [i \in 1..(NumExtra + 1) |-> IF i = NumExtra + 1 THEN BinaryEntry ELSE i]
    ELSE [i \in 1..(NumExtra + 1) |-> i - 1]

\* ------------------------------------------------------- ETag -> version tag
RECURSIVE LStrip(_, _)
LStrip(s, c) == IF s # <<>> /\ Head(s) = c THEN LStrip(Tail(s), c) ELSE s

RECURSIVE RStrip(_, _)
RStrip(s, c) ==
    IF s # <<>> /\ s[Len(s)] = c THEN RStrip(SubSeq(s, 1, Len(s) - 1), c) ELSE s

\* str.strip("\"")
Strip(s, c) == RStrip(LStrip(s, c), c)

\* str.replace("0x", ""): every non-overlapping occurrence, left to right
RECURSIVE Replace0x(_)
Replace0x(s) ==
    IF Len(s) < 2 THEN s
    ELSE IF s[1] = "0" /\ s[2] = "x" THEN Replace0x(SubSeq(s, 3, Len(s)))
    ELSE <<Head(s)>> \o Replace0x(Tail(s))

LowerChar(c) ==
    CASE c = "A" -> "a" [] c = "B" -> "b" [] c = "C" -> "c" [] c = "D" -> "d"
      [] c = "E" -> "e" [] c = "F" -> "f" [] c = "X" -> "x" [] OTHER -> c

\* str.lower()
Lower(s) == [i \in 1..Len(s) |-> LowerChar(s[i])]

\* etag = head_result.headers.get('ETag').strip("\"").replace("0x", "").lower()
NormalizeETag(header) == Lower(Replace0x(Strip(header, "\"")))

Urls == {DEFAULT_ARTIFACTTOOL_BINARY_URL, OverrideUrl}
Tags == {NormalizeETag(ServerETag(u)) : u \in Urls}

\* artifacttool_binary_url of _update_artifacttool
BinaryUrl(env) ==
    IF ARTIFACTTOOL_OVERRIDE_URL_ENVKEY \in DOMAIN env
    THEN env[ARTIFACTTOOL_OVERRIDE_URL_ENVKEY]
    ELSE DEFAULT_ARTIFACTTOOL_BINARY_URL

\* A path is the sequence of its components; NoPath is "no path yet".
NoPath == <<>>

\* os.path.join(tempfile.gettempdir(), "ArtifactTool", etag)
ToolDir(tag) == <<"<tmp>", "ArtifactTool", tag>>

\* os.path.join(tool_dir, "artifacttool-win10-x64-Release", "ArtifactTool.exe")
BinaryPath(tag) == ToolDir(tag) \o <<"artifacttool-win10-x64-Release", "ArtifactTool.exe">>

\* ------------------------------------------------- stderr lines of the tool
\* A line of the tool's stderr.
\*   kind "text":   json.loads raises
\*   kind "null":   the JSON value null (json.loads returns None)
\*   kind "number": a JSON number
\*   kind "object": a JSON object; m, l, x are its "@m", "@l", "@x" fields and ev
\*                  its EventId.Name (None: the key is absent); done and total are
\*                  the two counts of the event (ProcessedFiles/TotalFiles,
\*                  UploadedBytes/TotalBytes, DownloadedBytes/TotalBytes).
Levels == {"Critical", "Error", "Warning", "Information", "Verbose"}
ProgressEvents == {"ProcessingFiles", "Uploading", "Downloading"}
EventNames == ProgressEvents \cup {"Restoring"}
Counts == 0..MaxCount

NoFields == [m |-> None, l |-> None, x |-> None, ev |-> None, done |-> 0, total |-> 0]

ObjectLines ==
    { [kind |-> "object", m |-> m, l |-> l, x |-> x, ev |-> ev, done |-> d, total |-> t] :
        m \in {None, "X"}, l \in Levels \cup {None}, x \in {None, "", "trace"},
        ev \in EventNames \cup {None}, d \in Counts, t \in Counts }

\* The lines of the model: the fields no branch of _process_stderr reads are left out
\* (the exception text of a line that is no error, the counts of a line without a
\* progress event).
Lines ==
    { [kind |-> k] @@ NoFields : k \in {"text", "null", "number"} }
    \cup
    { o \in ObjectLines :
        /\ (o.x # None => o.m # None /\ o.l \in {"Critical", "Error"})
        /\ (o.m = None => o.l \in {None, "Error"})
        /\ (o.ev \notin ProgressEvents => o.done = 0 /\ o.total = 0) }

RECURSIVE GCD(_, _)
GCD(a, b) == IF b = 0 THEN a ELSE GCD(b, a % b)

\* Percent with the factor 100 forgotten.
Percent_fraction(done, total) ==
    LET g == GCD(done, total)
    IN  [num |-> done \div g, den |-> total \div g]

\* The float 100 * float(done) / float(total), total # 0, as a fraction in lowest terms.
Percent(done, total) ==
    LET n == 100 * done
        g == GCD(n, total)
    IN  [num |-> n \div g, den |-> total \div g]

\* "<label>: %s/%s <unit>" % (done, total)
ProgressMessage(label, done, total, unit) ==
    [label |-> label, done |-> done, total |-> total, unit |-> unit]

EventLabel(ev) ==
    CASE ev = "ProcessingFiles" -> "Pre-upload processing"
      [] ev = "Uploading" -> "Uploading"
      [] ev = "Downloading" -> "Downloading"

EventUnit(ev) == IF ev = "ProcessingFiles" THEN "files" ELSE "bytes"

\* What one call of _process_stderr does: the exception it raises ("none": it
\* returns), the text of that exception, the calls of update_progress_callback and
\* the records it logs, in order.
Outcome(raised, text, calls, logs) ==
    [raised |-> raised, text |-> text, calls |-> calls, logs |-> logs]

Log(level, text) == [level |-> level, text |-> text]

\* ProgressPart with a guard against a zero total: the update is skipped.
ProgressPart_guarded(line, logs) ==
    IF line.kind = "object" /\ line.ev \in ProgressEvents /\ line.total # 0
    THEN Outcome("none", <<>>,
                 << [message |-> ProgressMessage(EventLabel(line.ev), line.done,
                                                 line.total, EventUnit(line.ev)),
                     percent |-> Percent(line.done, line.total)] >>,
                 logs)
    ELSE Outcome("none", <<>>, <<>>, logs)

\* Lines 126-145: the progress update of a parsed line.
ProgressPart(line, logs) ==
    IF line.kind = "object" /\ line.ev \in ProgressEvents
    THEN IF line.total = 0
         THEN Outcome("ZeroDivisionError", <<"float division by zero">>, <<>>, logs)
         ELSE Outcome("none", <<>>,
                      << [message |-> ProgressMessage(EventLabel(line.ev), line.done,
                                                      line.total, EventUnit(line.ev)),
                          percent |-> Percent(line.done, line.total)] >>,
                      logs)
    ELSE Outcome("none", <<>>, <<>>, logs)

\* MessagePart that takes only "Error", not "Critical", for an error.
MessagePart_onlyError(line, logs) ==
    LET log_level == IF line.l # None THEN line.l ELSE "Information"
        message == line.m
    IN  IF log_level = "Error"
        THEN Outcome("CLIError",
                     IF line.x \notin {None, ""} THEN <<message, "\n", line.x>>
                                                 ELSE <<message>>,
                     <<>>, logs)
        ELSE ProgressPart(line,
                 Append(logs, Log(CASE log_level = "Warning" -> "warning"
                                    [] log_level = "Information" -> "info"
                                    [] OTHER -> "debug",
                                  <<message>>)))

\* MessagePart that reports the progress of the line before it raises its error.
MessagePart_progressFirst(line, logs) ==
    LET log_level == IF line.l # None THEN line.l ELSE "Information"
        message == line.m
        progress == ProgressPart(line, logs)
    IN  IF log_level \in {"Critical", "Error"}
        THEN IF progress.raised # "none" THEN progress
             ELSE Outcome("CLIError",
                          IF line.x \notin {None, ""} THEN <<message, "\n", line.x>>
                                                      ELSE <<message>>,
                          progress.calls, logs)
        ELSE ProgressPart(line,
                 Append(logs, Log(CASE log_level = "Warning" -> "warning"
                                    [] log_level = "Information" -> "info"
                                    [] OTHER -> "debug",
                                  <<message>>)))

\* Lines 109-124: the message of a parsed line.
MessagePart(line, logs) ==
    LET log_level == IF line.l # None THEN line.l ELSE "Information"
        message == line.m
    IN  IF log_level \in {"Critical", "Error"}
        THEN Outcome("CLIError",
                     IF line.x \notin {None, ""} THEN <<message, "\n", line.x>>
                                                 ELSE <<message>>,
                     <<>>, logs)
        ELSE ProgressPart(line,
                 Append(logs, Log(CASE log_level = "Warning" -> "warning"
                                    [] log_level = "Information" -> "info"
                                    [] OTHER -> "debug",
                                  <<message>>)))

\* _process_stderr without the try/except around json.loads.
process_stderr_noExcept(line) ==
    CASE line.kind = "text" ->
           Outcome("JSONDecodeError", <<"Expecting value">>, <<>>, <<>>)
      [] line.kind = "null" ->
           ProgressPart(line, <<Log("debug", <<"<line>">>)>>)
      [] line.kind = "number" ->
           Outcome("TypeError", <<"argument of type 'int' is not iterable">>, <<>>, <<>>)
      [] OTHER ->
           IF line.m # None
           THEN MessagePart(line, <<>>)
           ELSE ProgressPart(line, <<Log("debug", <<"<line>">>)>>)

\* _process_stderr(line, update_progress_callback)
process_stderr(line) ==
    LET logs0 == IF line.kind = "text"
                 THEN <<Log("debug", <<"Failed to parse JSON log line. Ensure that ArtifactTool structured logging is enabled.">>)>>
                 ELSE <<>>
    IN  CASE line.kind \in {"text", "null"} ->
               ProgressPart(line, Append(logs0, Log("debug", <<"<line>">>)))
          [] line.kind = "number" ->
               Outcome("TypeError", <<"argument of type 'int' is not iterable">>, <<>>, logs0)
          [] OTHER ->
               IF line.m # None
               THEN MessagePart(line, logs0)
               ELSE ProgressPart(line, Append(logs0, Log("debug", <<"<line>">>)))

\* ------------------------------------------------- the callers' arguments
TeamInstances == {"https://myaccount.visualstudio.com"}
Feeds == {"my-feed", "pat-1"}
PackageNames == {"my-cool-package"}
PackageVersions == {"1.0.0"}
Paths == {"./contents"}
Descriptions == {None, "", "a package"}

\* creds.password of the credentials _get_credentials resolves
Passwords == {"pat-1", "pat-2"}

\* download_upack: the argument list it passes to invoke_artifacttool
download_upack_args(team_instance, feed, package_name, package_version, path) ==
    <<"upack", "download", "--service", team_instance, "--patvar", PATVAR, "--feed", feed,
      "--package-name", package_name, "--package-version", package_version, "--path", path>>

\* publish_upack: the argument list it passes to invoke_artifacttool
publish_upack_args(team_instance, feed, package_name, package_version, description, path) ==
    <<"upack", "publish", "--service", team_instance, "--patvar", PATVAR, "--feed", feed,
      "--package-name", package_name, "--package-version", package_version, "--path", path>>
    \o (IF description \notin {None, ""} THEN <<"--description", description>> ELSE <<>>)

\* new_env that keeps a value the variable already has (setdefault).
new_env_setdefault(env, password) ==
    [k \in (DOMAIN env) \cup {PATVAR} |-> IF k \in DOMAIN env THEN env[k] ELSE password]

\* new_env = os.environ.copy(); new_env[self.PATVAR] = creds.password
new_env(env, password) ==
    [k \in (DOMAIN env) \cup {PATVAR} |-> IF k = PATVAR THEN password ELSE env[k]]

\* What invoke_artifacttool hands to run(): command_args, new_env and the initial
\* progress message.  NoCmd: no tool is running.
NoCmd == [args |-> <<>>, env |-> <<>>, label |-> None]

\* ------------------------------------------------------------------ state
VARIABLES
    pc,         \* pc[p]: where process p's command is ("off": p runs no command)
    environ,    \* environ[p]: os.environ of p
    tag,        \* tag[p]: etag of _update_artifacttool (<<>> before the HEAD)
    existed,    \* existed[p]: what os.path.exists(binary_path) answered ("unchecked" before)
    sawPartial, \* sawPartial[p]: the tag's directory was partly extracted, with nobody
                \*   extracting into it, when p made the check
    heads,      \* heads[p]: HEAD requests of p
    gets,       \* gets[p]: GET requests of p
    wrote,      \* wrote[p]: files p has extracted
    todo,       \* todo[p]: the archive entries extractall has still to write
    open,       \* open[p]: extractall is in the middle of writing Head(todo[p])
    ret,        \* ret[p]: the path get_latest_artifacttool returned (NoPath before)
    creds,      \* creds[p]: creds.password of the credentials resolved for p (None before)
    cmd,        \* cmd[p]: the running tool's command line and environment
    nlines,     \* nlines[p]: stderr lines of the running tool handled so far
    lastCall,   \* the last call of _process_stderr: who, the line, what it did
    disk,       \* disk[t][e]: the file of entry e under ToolDir(t)
    given       \* what the outside gives the commands: given.lines, the stderr lines
                \*   the external tool emits, and given.args, the arguments and
                \*   credentials the callers pass ("all" or "sample")

vars == <<pc, environ, tag, existed, sawPartial, heads, gets, wrote, todo, open,
          ret, creds, cmd, nlines, lastCall, disk, given>>

updaterVars == <<tag, existed, sawPartial, heads, gets, wrote, todo, open, ret>>

NoTag == <<>>
Absent == [st |-> "absent", by |-> 0]

NoCall == [proc |-> 0, line |-> [kind |-> "none"] @@ NoFields,
           out |-> Outcome("none", <<>>, <<>>, <<>>)]

\* Lines the tool emits in the runs of the updater's specification.
SampleLines ==
    { l \in Lines :
        \/ l.kind = "text"
        \/ l.kind = "object" /\ l.m = "X" /\ l.l = "Error" /\ l.x = None /\ l.ev = None }

InitProcs(active, envs) ==
    /\ pc = [p \in Procs |-> IF p \in active THEN "idle" ELSE "off"]
    /\ environ \in [Procs -> envs]
    /\ \A p \in Procs \ active : environ[p] = [k \in {"HOME"} |-> EnvValue(k)]
    /\ tag = [p \in Procs |-> NoTag]
    /\ existed = [p \in Procs |-> "unchecked"]
    /\ sawPartial = [p \in Procs |-> FALSE]
    /\ heads = [p \in Procs |-> 0]
    /\ gets = [p \in Procs |-> 0]
    /\ wrote = [p \in Procs |-> 0]
    /\ todo = [p \in Procs |-> <<>>]
    /\ open = [p \in Procs |-> FALSE]
    /\ ret = [p \in Procs |-> NoPath]
    /\ creds = [p \in Procs |-> None]
    /\ cmd = [p \in Procs |-> NoCmd]
    /\ nlines = [p \in Procs |-> 0]
    /\ lastCall = NoCall
    /\ disk = [t \in Tags |-> [e \in Entries |-> Absent]]

\* Concurrent commands over an empty cache.
Init ==
    /\ InitProcs(Procs, {e \in Environs : PATVAR \notin DOMAIN e})
    /\ given = [lines |-> "sample", args |-> "sample"]

\* One command, the tool emits any line.
InitLog ==
    /\ InitProcs({1}, {e \in Environs : DOMAIN e \subseteq {"HOME", ARTIFACTTOOL_OVERRIDE_PATH_ENVKEY}})
    /\ given = [lines |-> "all", args |-> "sample"]

\* One command, the caller passes any arguments.
InitInvoke ==
    /\ InitProcs({1}, Environs)
    /\ given = [lines |-> "sample", args |-> "all"]

\* ------------------------------------------------------------ the updater
BinaryExists(d, t) == d[t][BinaryEntry].st # "absent"

Extracting(t) == {q \in Procs : pc[q] = "extract" /\ tag[q] = t}

DirPartial(d, t) ==
    /\ \E e \in Entries : d[t][e].st # "absent"
    /\ \E e \in Entries : d[t][e].st # "complete"

\* get_latest_artifacttool that asks the server for the latest tag before it looks
\* at the override.
GetLatestOverride_headFirst(p) ==
    /\ pc[p] = "idle"
    /\ ARTIFACTTOOL_OVERRIDE_PATH_ENVKEY \in DOMAIN environ[p]
    /\ heads' = [heads EXCEPT ![p] = @ + 1]
    /\ ret' = [ret EXCEPT ![p] = <<environ[p][ARTIFACTTOOL_OVERRIDE_PATH_ENVKEY]>>]
    /\ pc' = [pc EXCEPT ![p] = "resolved"]
    /\ UNCHANGED <<environ, tag, existed, sawPartial, gets, wrote, todo, open,
                   creds, cmd, nlines, lastCall, disk, given>>

\* get_latest_artifacttool, the override branch (lines 32-35, 40)
GetLatestOverride(p) ==
    /\ pc[p] = "idle"
    /\ ARTIFACTTOOL_OVERRIDE_PATH_ENVKEY \in DOMAIN environ[p]
    /\ ret' = [ret EXCEPT ![p] = <<environ[p][ARTIFACTTOOL_OVERRIDE_PATH_ENVKEY]>>]
    /\ pc' = [pc EXCEPT ![p] = "resolved"]
    /\ UNCHANGED <<environ, tag, existed, sawPartial, heads, gets, wrote, todo, open,
                   creds, cmd, nlines, lastCall, disk, given>>

\* get_latest_artifacttool, the else branch, and _update_artifacttool up to the
\* HEAD request and the etag (lines 36-54).  The request fails, or answers without
\* an ETag header, and the exception leaves the command; or it answers the header.
HeadRequest(p) ==
    /\ pc[p] = "idle"
    /\ ARTIFACTTOOL_OVERRIDE_PATH_ENVKEY \notin DOMAIN environ[p]
    /\ heads' = [heads EXCEPT ![p] = @ + 1]
    /\ \E ok \in BOOLEAN :
         IF ok
         THEN /\ tag' = [tag EXCEPT ![p] = NormalizeETag(ServerETag(BinaryUrl(environ[p])))]
              /\ pc' = [pc EXCEPT ![p] = "check"]
         ELSE /\ pc' = [pc EXCEPT ![p] = "failed"]
              /\ UNCHANGED tag
    /\ UNCHANGED <<environ, existed, sawPartial, gets, wrote, todo, open, ret,
                   creds, cmd, nlines, lastCall, disk, given>>

\* The existence check whose answer is not used: the archive is always downloaded.
ExistsCheck_always(p) ==
    /\ pc[p] = "check"
    /\ sawPartial' = [sawPartial EXCEPT ![p] = DirPartial(disk, tag[p]) /\ Extracting(tag[p]) = {}]
    /\ existed' = [existed EXCEPT ![p] = IF BinaryExists(disk, tag[p]) THEN "yes" ELSE "no"]
    /\ pc' = [pc EXCEPT ![p] = "get"]
    /\ UNCHANGED <<environ, tag, heads, gets, wrote, todo, open, ret,
                   creds, cmd, nlines, lastCall, disk, given>>

\* The existence check under a lock on the tag's directory, held until the
\* download and the extraction are over.
ExistsCheck_locked(p) ==
    /\ pc[p] = "check"
    /\ \A q \in Procs \ {p} : ~(pc[q] \in {"get", "extract"} /\ tag[q] = tag[p])
    /\ sawPartial' = [sawPartial EXCEPT ![p] = DirPartial(disk, tag[p]) /\ Extracting(tag[p]) = {}]
    /\ IF BinaryExists(disk, tag[p])
       THEN /\ existed' = [existed EXCEPT ![p] = "yes"]
            /\ ret' = [ret EXCEPT ![p] = BinaryPath(tag[p])]
            /\ pc' = [pc EXCEPT ![p] = "resolved"]
       ELSE /\ existed' = [existed EXCEPT ![p] = "no"]
            /\ pc' = [pc EXCEPT ![p] = "get"]
            /\ UNCHANGED ret
    /\ UNCHANGED <<environ, tag, heads, gets, wrote, todo, open,
                   creds, cmd, nlines, lastCall, disk, given>>

\* _update_artifacttool, lines 56-64 and 70: the paths and os.path.exists(binary_path)
ExistsCheck(p) ==
    /\ pc[p] = "check"
    /\ sawPartial' = [sawPartial EXCEPT ![p] = DirPartial(disk, tag[p]) /\ Extracting(tag[p]) = {}]
    /\ IF BinaryExists(disk, tag[p])
       THEN /\ existed' = [existed EXCEPT ![p] = "yes"]
            /\ ret' = [ret EXCEPT ![p] = BinaryPath(tag[p])]
            /\ pc' = [pc EXCEPT ![p] = "resolved"]
       ELSE /\ existed' = [existed EXCEPT ![p] = "no"]
            /\ pc' = [pc EXCEPT ![p] = "get"]
            /\ UNCHANGED ret
    /\ UNCHANGED <<environ, tag, heads, gets, wrote, todo, open,
                   creds, cmd, nlines, lastCall, disk, given>>

\* _update_artifacttool, lines 66-67: requests.get and zipfile.ZipFile.  The request
\* fails (or the content is no zip) and the exception leaves the command, or the
\* archive is ready to be extracted.
GetRequest(p) ==
    /\ pc[p] = "get"
    /\ gets' = [gets EXCEPT ![p] = @ + 1]
    /\ \E ok \in BOOLEAN :
         IF ok
         THEN /\ todo' = [todo EXCEPT ![p] = ArchiveOf(BinaryUrl(environ[p]))]
              /\ pc' = [pc EXCEPT ![p] = "extract"]
         ELSE /\ pc' = [pc EXCEPT ![p] = "failed"]
              /\ UNCHANGED todo
    /\ UNCHANGED <<environ, tag, existed, sawPartial, heads, wrote, open, ret,
                   creds, cmd, nlines, lastCall, disk, given>>

\* f.extractall(path=tool_dir), line 68: the next entry's file is created
\* (truncated if it exists) ...
ExtractOpen(p) ==
    /\ pc[p] = "extract"
    /\ ~open[p]
    /\ todo[p] # <<>>
    /\ disk' = [disk EXCEPT ![tag[p]][Head(todo[p])] = [st |-> "partial", by |-> p]]
    /\ open' = [open EXCEPT ![p] = TRUE]
    /\ UNCHANGED <<pc, environ, tag, existed, sawPartial, heads, gets, wrote, todo,
                   ret, creds, cmd, nlines, lastCall, given>>

\* ... and written to its end; after the last entry _update_artifacttool returns
\* binary_path (line 70).
ExtractClose(p) ==
    /\ pc[p] = "extract"
    /\ open[p]
    /\ disk' = [disk EXCEPT ![tag[p]][Head(todo[p])] = [st |-> "complete", by |-> p]]
    /\ open' = [open EXCEPT ![p] = FALSE]
    /\ wrote' = [wrote EXCEPT ![p] = @ + 1]
    /\ todo' = [todo EXCEPT ![p] = Tail(@)]
    /\ IF Tail(todo[p]) = <<>>
       THEN /\ ret' = [ret EXCEPT ![p] = BinaryPath(tag[p])]
            /\ pc' = [pc EXCEPT ![p] = "resolved"]
       ELSE UNCHANGED <<ret, pc>>
    /\ UNCHANGED <<environ, tag, existed, sawPartial, heads, gets,
                   creds, cmd, nlines, lastCall, given>>

\* The process dies in the middle of extractall: what it wrote stays on the disk.
Crash(p) ==
    /\ pc[p] = "extract"
    /\ pc' = [pc EXCEPT ![p] = "crashed"]
    /\ UNCHANGED <<environ, updaterVars, creds, cmd, nlines, lastCall, disk, given>>

\* ------------------------------------------------------------ the invoker
\* The argument lists publish_upack and download_upack build for their callers.
ArgLists ==
    { download_upack_args(t, f, n, v, d) :
        t \in TeamInstances, f \in Feeds, n \in PackageNames, v \in PackageVersions,
        d \in Paths }
    \cup
    { publish_upack_args(t, f, n, v, de, d) :
        t \in TeamInstances, f \in Feeds, n \in PackageNames, v \in PackageVersions,
        de \in Descriptions, d \in Paths }

SampleArgLists ==
    { a \in ArgLists : a[2] = "download" /\ "pat-1" \notin {a[i] : i \in 1..Len(a)} }

GivenArgLists == IF given.args = "all" THEN ArgLists ELSE SampleArgLists
GivenPasswords == IF given.args = "all" THEN Passwords ELSE {"pat-2"}
GivenLines == IF given.lines = "all" THEN Lines ELSE SampleLines

\* invoke_artifacttool after the tool is resolved (lines 93-100): the credentials,
\* the environment, the command line, and run() starts the tool.
invoke_artifacttool(p, args, password) ==
    /\ pc[p] = "resolved"
    /\ creds' = [creds EXCEPT ![p] = password]
    /\ cmd' = [cmd EXCEPT ![p] =
                 [args |-> <<ret[p]>> \o args,
                  env |-> new_env(environ[p], password),
                  label |-> IF args[2] = "download" THEN "Downloading" ELSE "Publishing"]]
    /\ pc' = [pc EXCEPT ![p] = "running"]
    /\ nlines' = [nlines EXCEPT ![p] = 0]
    /\ UNCHANGED <<environ, updaterVars, lastCall, disk, given>>

\* publish_upack / download_upack with the caller's arguments
Invoke(p) ==
    \E args \in GivenArgLists, password \in GivenPasswords :
        invoke_artifacttool(p, args, password)

\* run() hands the tool's next stderr line to _process_stderr; an exception it
\* raises leaves run(), invoke_artifacttool and publish_upack/download_upack, and
\* reaches handle_command_exception in upack.py.
RunLine(p) ==
    /\ pc[p] = "running"
    /\ nlines[p] < MaxLines
    /\ \E line \in GivenLines :
         LET out == process_stderr(line)
         IN  /\ lastCall' = [proc |-> p, line |-> line, out |-> out]
             /\ IF out.raised = "none"
                THEN UNCHANGED <<pc, cmd>>
                ELSE /\ pc' = [pc EXCEPT ![p] = "failed"]
                     /\ cmd' = [cmd EXCEPT ![p] = NoCmd]
    /\ nlines' = [nlines EXCEPT ![p] = @ + 1]
    /\ UNCHANGED <<environ, updaterVars, creds, disk, given>>

\* The tool exits and run() returns.
RunExit(p) ==
    /\ pc[p] = "running"
    /\ pc' = [pc EXCEPT ![p] = "exited"]
    /\ cmd' = [cmd EXCEPT ![p] = NoCmd]
    /\ UNCHANGED <<environ, updaterVars, creds, nlines, lastCall, disk, given>>

Next ==
    \E p \in Procs :
        \/ GetLatestOverride(p)
        \/ HeadRequest(p)
        \/ ExistsCheck(p)
        \/ GetRequest(p)
        \/ ExtractOpen(p)
        \/ ExtractClose(p)
        \/ Crash(p)
        \/ Invoke(p)
        \/ RunLine(p)
        \/ RunExit(p)

\* Concurrent commands over the shared cache.
Spec == Init /\ [][Next]_vars

\* One command, every stderr line.
SpecLog == InitLog /\ [][Next]_vars

\* One command, every argument list and credential.
SpecInvoke == InitInvoke /\ [][Next]_vars

\* ================================================================== claims
Called == lastCall.proc # 0
lastLine == lastCall.line
lastOut == lastCall.out

IsErrorLine(l) == l.kind = "object" /\ l.m # None /\ l.l \in {"Critical", "Error"}
IsProgressLine(l) == l.kind = "object" /\ l.ev \in ProgressEvents

Contains(text, piece) == \E i \in 1..Len(text) : text[i] = piece

\* The command of the process that made the last call was aborted by it: the
\* exception reached the command's caller, and the tool's exit is never waited for.
Aborted == pc[lastCall.proc] = "failed" /\ ~ENABLED RunExit(lastCall.proc)

\* One progress update, with the percentage 100 * done / total and a message
\* holding both counts.
OneUpdate ==
    /\ Len(lastOut.calls) = 1
    /\ lastOut.calls[1].percent.den > 0
    /\ lastOut.calls[1].percent.num * lastLine.total = 100 * lastLine.done * lastOut.calls[1].percent.den
    /\ lastOut.calls[1].message.done = lastLine.done
    /\ lastOut.calls[1].message.total = lastLine.total

\* C1: a line that is a JSON object with "@m" and with "@l" "Error" or "Critical"
\* makes _process_stderr raise a CLIError whose text holds the message and, if "@x"
\* is there and not empty, the exception text; the error aborts the command.
C1_ErrorLineRaises ==
    (Called /\ IsErrorLine(lastLine)) =>
        /\ lastOut.raised = "CLIError"
        /\ Contains(lastOut.text, lastLine.m)
        /\ (lastLine.x \notin {None, ""} => Contains(lastOut.text, lastLine.x))
        /\ lastOut.calls = <<>>
        /\ Aborted

C1_Witness ==
    /\ Called /\ IsErrorLine(lastLine) /\ lastLine.l = "Critical" /\ lastLine.x = "trace"
    /\ lastOut.raised = "CLIError" /\ lastOut.text = <<"X", "\n", "trace">>
    /\ pc[lastCall.proc] = "failed"

\* C5: a line that fails to parse as JSON never makes _process_stderr call the
\* progress callback or raise; it is only logged, at debug level.
C5_UnparsedLineIsDebugOnly ==
    (Called /\ lastLine.kind = "text") =>
        /\ lastOut.raised = "none"
        /\ lastOut.calls = <<>>
        /\ lastOut.logs # <<>>
        /\ \A i \in 1..Len(lastOut.logs) : lastOut.logs[i].level = "debug"

C5_Witness ==
    /\ Called /\ lastLine.kind = "text"
    /\ lastOut.raised = "none" /\ Len(lastOut.logs) = 2
    /\ pc[lastCall.proc] = "running"

\* C6: a parsed line without an Error/Critical message whose event is
\* ProcessingFiles, Uploading or Downloading and whose total is not 0 makes
\* _process_stderr call the progress callback exactly once, with percent
\* 100 * done / total and a message holding both counts; with any other event name
\* (or none) the callback is not called.
C6_ProgressOnceWithPercent ==
    (Called /\ lastLine.kind = "object" /\ ~IsErrorLine(lastLine)) =>
        /\ (lastLine.ev \in ProgressEvents /\ lastLine.total # 0) => (lastOut.raised = "none" /\ OneUpdate)
        /\ (lastLine.ev \notin ProgressEvents) => lastOut.calls = <<>>

C6_Witness ==
    /\ Called /\ lastLine.kind = "object" /\ lastLine.m = None
    /\ lastLine.ev = "Downloading" /\ lastLine.done = 1 /\ lastLine.total = 4
    /\ Len(lastOut.calls) = 1
    /\ lastOut.calls[1].percent = [num |-> 25, den |-> 1]
    /\ lastOut.calls[1].message = [label |-> "Downloading", done |-> 1, total |-> 4, unit |-> "bytes"]

\* C7 as stated: every parsed line with a recognized event name gets a progress
\* update whatever its message and severity are, a message of level Error or
\* Critical included (lines with a zero total, which C9 is about, set aside).
C7_Original ==
    (Called /\ IsProgressLine(lastLine) /\ lastLine.total # 0) => Len(lastOut.calls) = 1

\* C7 as amended: a parsed line with a recognized event name gets its progress update
\* whatever its message and severity are, except that a message of level Error or
\* Critical raises the CLIError first, and a zero total raises the division error:
\* in both cases no progress is reported.
C7_ProgressUnlessErrorRaised ==
    (Called /\ IsProgressLine(lastLine)) =>
        IF IsErrorLine(lastLine) THEN lastOut.raised = "CLIError" /\ lastOut.calls = <<>>
        ELSE IF lastLine.total = 0 THEN lastOut.raised = "ZeroDivisionError" /\ lastOut.calls = <<>>
        ELSE lastOut.raised = "none" /\ OneUpdate

C7_Witness ==
    /\ Called /\ IsProgressLine(lastLine) /\ lastLine.m = "X" /\ lastLine.l = "Warning"
    /\ lastLine.ev = "Uploading" /\ lastLine.total = 2 /\ lastLine.done = 1
    /\ Len(lastOut.calls) = 1 /\ lastOut.calls[1].percent = [num |-> 50, den |-> 1]
    /\ lastOut.logs = <<Log("warning", <<"X">>)>>

\* C9 as stated: a parsed line with a recognized event name and a total of 0 makes
\* _process_stderr raise a division error before the progress callback is called,
\* and the error aborts the command.
C9_Original ==
    (Called /\ IsProgressLine(lastLine) /\ lastLine.total = 0) =>
        /\ lastOut.raised = "ZeroDivisionError"
        /\ lastOut.calls = <<>>
        /\ Aborted

\* C9 as amended: such a line raises the division error unless it also carries a
\* message of level Error or Critical, which raises the CLIError first; either way
\* the progress callback is not called and the error aborts the command.
C9_ZeroTotalRaises ==
    (Called /\ IsProgressLine(lastLine) /\ lastLine.total = 0) =>
        /\ lastOut.raised = (IF IsErrorLine(lastLine) THEN "CLIError" ELSE "ZeroDivisionError")
        /\ lastOut.calls = <<>>
        /\ Aborted

C9_Witness ==
    /\ Called /\ IsProgressLine(lastLine) /\ lastLine.total = 0 /\ lastLine.done = 0
    /\ lastLine.m = "X" /\ lastLine.l = None
    /\ lastOut.raised = "ZeroDivisionError" /\ lastOut.calls = <<>>
    /\ lastOut.logs = <<Log("info", <<"X">>)>>
    /\ pc[lastCall.proc] = "failed"

\* Process p has written nothing under the cache root.
WroteNothing(p) ==
    /\ wrote[p] = 0
    /\ \A t \in Tags, e \in Entries : disk[t][e].by # p

Resolved(p) == pc[p] \in {"resolved", "running", "exited", "failed"} /\ ret[p] # NoPath

\* C2 as stated: the environment handed to the tool is a copy of os.environ plus
\* VSTS_ARTIFACTTOOL_PATVAR set to the credential's password, and the password is
\* no element of the argument list, whatever the caller's arguments are.
C2_Original ==
    \A p \in Procs : pc[p] = "running" =>
        /\ cmd[p].env = [k \in (DOMAIN environ[p]) \cup {PATVAR} |->
                            IF k = PATVAR THEN creds[p] ELSE environ[p][k]]
        /\ cmd[p].args[1] # <<creds[p]>>
        /\ \A i \in 2..Len(cmd[p].args) : cmd[p].args[i] # creds[p]

\* The flags of the argument list that are followed by an argument of the caller.
CallerFlags ==
    {"--service", "--feed", "--package-name", "--package-version", "--path", "--description"}

\* C2 as amended: the environment is as stated, the element after --patvar is the
\* variable's name, and the password is an element of the argument list only where
\* an argument of the caller (service, feed, package name, version, path,
\* description) is itself equal to it.
C2_CredentialOnlyInEnvironment ==
    \A p \in Procs : pc[p] = "running" =>
        /\ cmd[p].env = [k \in (DOMAIN environ[p]) \cup {PATVAR} |->
                            IF k = PATVAR THEN creds[p] ELSE environ[p][k]]
        /\ creds[p] \in Passwords
        /\ cmd[p].args[1] = ret[p]
        /\ \E i \in 2..(Len(cmd[p].args) - 1) :
              cmd[p].args[i] = "--patvar" /\ cmd[p].args[i + 1] = PATVAR
        /\ \A i \in 2..Len(cmd[p].args) :
              cmd[p].args[i] = creds[p] => cmd[p].args[i - 1] \in CallerFlags

C2_Witness ==
    \E p \in Procs :
        /\ pc[p] = "running"
        /\ PATVAR \in DOMAIN environ[p] /\ environ[p][PATVAR] # creds[p]
        /\ cmd[p].env[PATVAR] = creds[p]
        /\ cmd[p].args[3] = "publish"
        /\ Len(cmd[p].args) = 17
        /\ \A i \in 2..Len(cmd[p].args) : cmd[p].args[i] # creds[p]

\* C3: when VSTS_ARTIFACTTOOL_OVERRIDE_PATH is set, get_latest_artifacttool returns
\* exactly its value, with no HEAD and no GET request and no change to the cache,
\* whatever the cache holds and whether or not the URL override is set.
C3_OverrideReturnedUntouched ==
    \A p \in Procs :
        (ARTIFACTTOOL_OVERRIDE_PATH_ENVKEY \in DOMAIN environ[p] /\ pc[p] \notin {"idle", "off"}) =>
            /\ Resolved(p)
            /\ ret[p] = <<environ[p][ARTIFACTTOOL_OVERRIDE_PATH_ENVKEY]>>
            /\ heads[p] = 0 /\ gets[p] = 0
            /\ WroteNothing(p)

C3_Witness ==
    \E p \in Procs :
        /\ ARTIFACTTOOL_OVERRIDE_PATH_ENVKEY \in DOMAIN environ[p]
        /\ ARTIFACTTOOL_OVERRIDE_URL_ENVKEY \in DOMAIN environ[p]
        /\ pc[p] = "resolved" /\ ret[p] = <<OverridePath>>
        /\ \E t \in Tags : DirPartial(disk, t)

\* C4: with no path override, when the binary path of the current tag exists,
\* resolving issues exactly one HEAD and no GET request, extracts nothing and
\* returns that path; a GET and an extraction happen only when the path did not
\* exist.
C4_CachedBinaryReused ==
    \A p \in Procs :
        /\ existed[p] = "yes" =>
              /\ ARTIFACTTOOL_OVERRIDE_PATH_ENVKEY \notin DOMAIN environ[p]
              /\ Resolved(p)
              /\ ret[p] = BinaryPath(tag[p])
              /\ heads[p] = 1 /\ gets[p] = 0 /\ wrote[p] = 0
              /\ \A t \in Tags, e \in Entries : disk[t][e].by # p
        /\ (gets[p] > 0 \/ wrote[p] > 0 \/ pc[p] \in {"get", "extract", "crashed"}) =>
              existed[p] = "no" /\ heads[p] = 1 /\ gets[p] <= 1

C4_Witness ==
    \E p \in Procs :
        /\ existed[p] = "yes" /\ pc[p] = "resolved"
        /\ ret[p] = BinaryPath(tag[p])
        /\ disk[tag[p]][BinaryEntry].st = "complete"

\* C8 as stated: after a crash in the middle of the extraction has left a partial
\* directory for a tag, the next resolution of that tag takes the cache entry for
\* existing: it returns the binary path with no GET request and no extraction.
C8_Original ==
    \A p \in Procs :
        (sawPartial[p] /\ \E q \in Procs : pc[q] = "crashed" /\ tag[q] = tag[p]) =>
            /\ existed[p] = "yes"
            /\ gets[p] = 0
            /\ wrote[p] = 0

\* C10: the existence check and the download are not atomic and take no lock:
\* whatever the other commands are doing, a command at the check whose binary path
\* does not exist can go on to the GET request.
C10_NoLockOnCache ==
    \A p \in Procs :
        (pc[p] = "check" /\ ~BinaryExists(disk, tag[p])) =>
            ENABLED (ExistsCheck(p) /\ pc'[p] = "get")

\* Two commands have both passed the check, both issued a GET and both extracted
\* the archive into the directory of the same tag; every file of the first is
\* overwritten by the second.
C10_Witness ==
    \E p, q \in Procs :
        /\ p # q /\ tag[p] = tag[q] /\ tag[p] # NoTag
        /\ existed[p] = "no" /\ existed[q] = "no"
        /\ gets[p] = 1 /\ gets[q] = 1
        /\ wrote[p] = NumExtra + 1 /\ wrote[q] = NumExtra + 1
        /\ pc[p] = "resolved" /\ pc[q] = "resolved"
        /\ \A e \in Entries : disk[tag[p]][e] = [st |-> "complete", by |-> q]

=============================================================================
